---- MODULE Spec2Model ----
(***************************************************************************)
(* A model of crabwise (src/src/main.rs): the USB benchmark's main(), its  *)
(* write pass and read pass over the temp file, the report, the optional   *)
(* log, the cleanup, and the size parser parse_size.                       *)
(*                                                                         *)
(* Two specifications:                                                     *)
(*   Spec       one run of main() from parsed sizes to process exit        *)
(*   SpecParse  parse_size applied to one input string                     *)
(***************************************************************************)
EXTENDS Integers, Sequences, FiniteSets, TLC

\* ------------------------------------------------------------------ bounds
MaxTotal == 4
MaxBlock == 3
MaxPre == 3
MaxCand == 2
MaxLen == 3
NLimbs == 10

VARIABLES
    \* --- main(): arguments (fixed after Init)
    total,            \* parse_size(&args.size)
    block,            \* parse_size(&args.block)
    keep,             \* args.keep
    has_target,       \* args.target_dir is Some
    file0,            \* test_path on the file system before the run
    \* --- main(): run state
    pc,               \* position in main()
    file,             \* test_path on the file system: [exists, size]
    dir_created,      \* create_dir_all(&target_dir) has succeeded
    device_selected,  \* choose_target_dir() has returned a path
    writer_open,      \* open_write has succeeded in this run
    wpos,             \* write handle's file offset
    bufd,             \* bytes held in the BufWriter
    written,          \* main's `written`
    reader_open,      \* open_read has succeeded
    rpos,             \* read handle's file offset
    read_total,       \* main's `read_total`
    now,              \* the monotonic clock (Instant)
    t0,               \* Instant taken before the write loop
    write_secs,       \* t0.elapsed() after the sync
    sync_done_at,     \* clock value when sync_all returned
    t1,               \* Instant taken before the read loop
    read_secs,        \* t1.elapsed() after the read loop
    chunks,           \* sizes passed to write_all, in order
    trace,            \* the operations main attempted, in order
    err,              \* the operation whose error main returned, or "none"
    err_at,           \* index in trace of the failing operation (0: none)
    exit_code,        \* process exit code (-1: still running)
    reported,         \* the results summary was printed
    logged,           \* a line was appended to crabwise.log
    remove_failed,    \* remove_file returned an error (ignored)
    w_mbs, w_mbps, r_mbs, r_mbps,
    \* --- parse_size
    p_pc, p_input, p_result

argvars == <<total, block, keep, has_target, file0>>
runvars == <<pc, file, dir_created, device_selected, writer_open, wpos, bufd,
             written, reader_open, rpos, read_total, now, t0, write_secs,
             sync_done_at, t1, read_secs, chunks, trace, err, err_at,
             exit_code, reported, logged, remove_failed,
             w_mbs, w_mbps, r_mbs, r_mbps>>
parsevars == <<p_pc, p_input, p_result>>
vars == <<argvars, runvars, parsevars>>

Min(a, b) == IF a < b THEN a ELSE b
Max(a, b) == IF a > b THEN a ELSE b

\* ------------------------------------------------------------ f64 results
\* An f64 quotient: a finite value num/den, +infinity, or NaN.
Unset == [kind |-> "unset", num |-> 0, den |-> 1]
Inf == [kind |-> "inf", num |-> 0, den |-> 1]
NaN == [kind |-> "nan", num |-> 0, den |-> 1]
Fin(n, d) == [kind |-> "fin", num |-> n, den |-> d]

\* x / dur_s in IEEE arithmetic, x = n/d >= 0: 0/0 is NaN, x/0 is +inf.
FDiv(n, d, dur_s) ==
    IF dur_s = 0 THEN (IF n = 0 THEN NaN ELSE Inf) ELSE Fin(n, d * dur_s)

mbps(bytes, dur_s) == FDiv(bytes * 8, 1000000, dur_s)
mbs(bytes, dur_s) == FDiv(bytes, 1000000, dur_s)

\* --------------------------------------------------------------- main()
FileStates == {[exists |-> FALSE, size |-> 0]}
                 \cup {[exists |-> TRUE, size |-> n] : n \in 0..MaxPre}

\* The run state before main() has done anything, at position p.
InitRun(p) ==
    /\ pc = p
    /\ file = file0
    /\ dir_created = FALSE
    /\ device_selected = FALSE
    /\ writer_open = FALSE
    /\ wpos = 0
    /\ bufd = 0
    /\ written = 0
    /\ reader_open = FALSE
    /\ rpos = 0
    /\ read_total = 0
    /\ now = 0
    /\ t0 = 0
    /\ write_secs = 0
    /\ sync_done_at = 0
    /\ t1 = 0
    /\ read_secs = 0
    /\ chunks = << >>
    /\ trace = << >>
    /\ err = "none"
    /\ err_at = 0
    /\ exit_code = -1
    /\ reported = FALSE
    /\ logged = FALSE
    /\ remove_failed = FALSE
    /\ w_mbs = Unset /\ w_mbps = Unset /\ r_mbs = Unset /\ r_mbps = Unset

Init ==
    /\ total \in 0..MaxTotal
    /\ block \in 0..MaxBlock
    /\ keep \in BOOLEAN
    /\ has_target \in BOOLEAN
    /\ file0 \in FileStates
    /\ InitRun("validate")
    /\ p_pc = "off" /\ p_input = << >> /\ p_result = [status |-> "none"]

\* A write of n bytes at offset pos through a handle on file f.
FileWrite(f, pos, n) == [exists |-> TRUE, size |-> Max(f.size, pos + n)]

\* BufWriter's destructor: flush_buf() once, its result ignored.  It issues a
\* write only when bytes are still buffered.
DropWriter(f, drop_ok) ==
    IF writer_open /\ bufd > 0 /\ drop_ok THEN FileWrite(f, wpos, bufd) ELSE f

DropTrace(tr) ==
    IF writer_open /\ bufd > 0 THEN Append(tr, "drop_write") ELSE tr

\* `?` on an Err: main returns it; the locals are dropped; exit code 1.
\* tr is the trace up to and including the failed operation.
Fail(op, tr, drop_ok) ==
    /\ err' = op
    /\ err_at' = Len(tr)
    /\ trace' = DropTrace(tr)
    /\ file' = DropWriter(file, drop_ok)
    /\ exit_code' = 1
    /\ pc' = "exit"

\* Mutant of ValidConfig: the check total >= block is dropped.
ValidConfig_NoUpperCheck(t, b) == b > 0

\* line 217: assert!(block > 0 && total >= block, ...)
ValidConfig(t, b) == b > 0 /\ t >= b

\* lines 214-217: the sizes are parsed and checked; a failed assert panics
\* (exit code 101) before anything else runs.
Validate ==
    /\ pc = "validate"
    /\ IF ValidConfig(total, block)
       THEN /\ pc' = "target"
            /\ UNCHANGED <<exit_code, err>>
       ELSE /\ pc' = "exit"
            /\ exit_code' = 101
            /\ err' = "assert"
    /\ UNCHANGED <<argvars, parsevars, file, dir_created, device_selected,
                   writer_open, wpos, bufd, written, reader_open, rpos,
                   read_total, now, t0, write_secs, sync_done_at, t1,
                   read_secs, chunks, trace, err_at, reported, logged,
                   remove_failed, w_mbs, w_mbps, r_mbs, r_mbps>>

\* choose_target_dir: with no candidates the path is read from stdin; else
\* the 1-based selection sel must parse (sel >= 0) and lie in 1..n_cand.
choose_target_dir(n_cand, sel, stdin_ok) ==
    IF ~stdin_ok THEN "err"
    ELSE IF n_cand = 0 THEN "ok"
    ELSE IF sel < 0 THEN "err"
    ELSE IF sel - 1 < 0 THEN "err"
    ELSE IF sel - 1 < n_cand THEN "ok"
    ELSE "err"

\* lines 219-222
ChooseTarget(n_cand, sel, stdin_ok) ==
    /\ pc = "target"
    /\ IF has_target
       THEN /\ pc' = "mkdir"
            /\ UNCHANGED <<device_selected, trace, err, err_at, exit_code, file>>
       ELSE IF choose_target_dir(n_cand, sel, stdin_ok) = "ok"
       THEN /\ pc' = "mkdir"
            /\ device_selected' = TRUE
            /\ trace' = Append(trace, "choose")
            /\ UNCHANGED <<err, err_at, exit_code, file>>
       ELSE /\ Fail("choose", Append(trace, "choose"), TRUE)
            /\ UNCHANGED device_selected
    /\ UNCHANGED <<argvars, parsevars, dir_created, writer_open, wpos, bufd,
                   written, reader_open, rpos, read_total, now, t0,
                   write_secs, sync_done_at, t1, read_secs, chunks, reported,
                   logged, remove_failed, w_mbs, w_mbps, r_mbs, r_mbps>>

\* line 224: std::fs::create_dir_all(&target_dir)?
CreateDir(ok) ==
    /\ pc = "mkdir"
    /\ IF ok
       THEN /\ pc' = "open_write"
            /\ dir_created' = TRUE
            /\ trace' = Append(trace, "mkdir")
            /\ UNCHANGED <<err, err_at, exit_code, file>>
       ELSE /\ Fail("mkdir", Append(trace, "mkdir"), TRUE)
            /\ UNCHANGED dir_created
    /\ UNCHANGED <<argvars, parsevars, device_selected, writer_open, wpos,
                   bufd, written, reader_open, rpos, read_total, now, t0,
                   write_secs, sync_done_at, t1, read_secs, chunks, reported,
                   logged, remove_failed, w_mbs, w_mbps, r_mbs, r_mbps>>

\* Mutant of open_write: truncate(true) is missing.
open_write_NoTruncate(f) ==
    IF f.exists THEN f ELSE [exists |-> TRUE, size |-> 0]

\* open_write: create(true).write(true).truncate(true)
open_write(f) == [exists |-> TRUE, size |-> 0]

\* lines 228-237: open the write handle, wrap it in a BufWriter of capacity
\* block, written = 0, t0 = Instant::now().
OpenWrite(ok) ==
    /\ pc = "open_write"
    /\ IF ok
       THEN /\ pc' = "write"
            /\ file' = open_write(file)
            /\ writer_open' = TRUE
            /\ wpos' = 0
            /\ bufd' = 0
            /\ written' = 0
            /\ t0' = now
            /\ trace' = Append(trace, "open_write")
            /\ UNCHANGED <<err, err_at, exit_code>>
       ELSE /\ Fail("open_write", Append(trace, "open_write"), TRUE)
            /\ UNCHANGED <<writer_open, wpos, bufd, written, t0>>
    /\ UNCHANGED <<argvars, parsevars, dir_created, device_selected,
                   reader_open, rpos, read_total, now, write_secs,
                   sync_done_at, t1, read_secs, chunks, reported, logged,
                   remove_failed, w_mbs, w_mbps, r_mbs, r_mbps>>

\* Mutant of to_write: every chunk is a whole block.
to_write_WholeBlock(b, t, w) == b

\* line 239: std::cmp::min(block, total - written)
to_write(b, t, w) == Min(b, t - w)

\* lines 238-243: one iteration of the write loop.  BufWriter::write_all of n
\* bytes with capacity block: n below the spare capacity is buffered (no
\* I/O, cannot fail); otherwise the buffer is flushed first when n exceeds
\* the spare capacity, and n >= capacity goes straight to the file.
WriteBlock(ok, tick, drop_ok) ==
    /\ pc = "write"
    /\ written < total
    /\ LET n == to_write(block, total, written)
           spare == block - bufd
           tr == Append(trace, "write")
           must_flush == n > spare
           direct == n >= block
           f1 == IF must_flush THEN FileWrite(file, wpos, bufd) ELSE file
           p1 == IF must_flush THEN wpos + bufd ELSE wpos
           b1 == IF must_flush THEN 0 ELSE bufd
       IN  /\ chunks' = Append(chunks, n)
           /\ now' = now + (IF tick THEN 1 ELSE 0)
           /\ IF n < spare
              THEN /\ bufd' = bufd + n
                   /\ written' = written + n
                   /\ trace' = tr
                   /\ UNCHANGED <<file, wpos, pc, err, err_at, exit_code>>
              ELSE IF ok
              THEN /\ file' = IF direct THEN FileWrite(f1, p1, n) ELSE f1
                   /\ wpos' = IF direct THEN p1 + n ELSE p1
                   /\ bufd' = IF direct THEN b1 ELSE b1 + n
                   /\ written' = written + n
                   /\ trace' = tr
                   /\ UNCHANGED <<pc, err, err_at, exit_code>>
              ELSE /\ Fail("write", tr, drop_ok)
                   /\ UNCHANGED <<wpos, bufd, written>>
    /\ UNCHANGED <<argvars, parsevars, dir_created, device_selected,
                   writer_open, reader_open, rpos, read_total, t0,
                   write_secs, sync_done_at, t1, read_secs, reported, logged,
                   remove_failed, w_mbs, w_mbps, r_mbs, r_mbps>>

\* line 244: writer.flush()? -- the loop has ended; the buffered tail, if
\* any, is written to the file.  A failed flush leaves the tail buffered.
Flush(ok, drop_ok) ==
    /\ pc = "write"
    /\ ~(written < total)
    /\ IF ok
       THEN /\ pc' = "sync"
            /\ file' = IF bufd > 0 THEN FileWrite(file, wpos, bufd) ELSE file
            /\ wpos' = wpos + bufd
            /\ bufd' = 0
            /\ trace' = Append(trace, "flush")
            /\ UNCHANGED <<err, err_at, exit_code>>
       ELSE /\ bufd > 0
            /\ Fail("flush", Append(trace, "flush"), drop_ok)
            /\ UNCHANGED <<wpos, bufd>>
    /\ UNCHANGED <<argvars, parsevars, dir_created, device_selected,
                   writer_open, written, reader_open, rpos, read_total, now, t0,
                   write_secs, sync_done_at, t1, read_secs, chunks, reported,
                   logged, remove_failed, w_mbs, w_mbps, r_mbs, r_mbps>>

\* Mutant of SyncAll: the sync_all call is missing.
SyncAll_Skipped(ok, tick) ==
    /\ pc = "sync"
    /\ pc' = "write_secs"
    /\ UNCHANGED <<argvars, parsevars, file, dir_created, device_selected,
                   writer_open, wpos, bufd, written, reader_open, rpos,
                   read_total, now, t0, write_secs, sync_done_at, t1,
                   read_secs, chunks, trace, err, err_at, exit_code,
                   reported, logged, remove_failed, w_mbs, w_mbps, r_mbs,
                   r_mbps>>

\* line 245: writer.get_ref().sync_all()?
SyncAll(ok, tick) ==
    /\ pc = "sync"
    /\ now' = now + (IF tick THEN 1 ELSE 0)
    /\ IF ok
       THEN /\ pc' = "write_secs"
            /\ sync_done_at' = now'
            /\ trace' = Append(trace, "sync")
            /\ UNCHANGED <<err, err_at, exit_code, file>>
       ELSE /\ Fail("sync", Append(trace, "sync"), TRUE)
            /\ UNCHANGED sync_done_at
    /\ UNCHANGED <<argvars, parsevars, dir_created, device_selected,
                   writer_open, wpos, bufd, written, reader_open, rpos,
                   read_total, t0, write_secs, t1, read_secs, chunks,
                   reported, logged, remove_failed, w_mbs, w_mbps, r_mbs,
                   r_mbps>>

\* lines 246-247: let write_secs = t0.elapsed().as_secs_f64()
CaptureWriteSecs ==
    /\ pc = "write_secs"
    /\ write_secs' = now - t0
    /\ trace' = Append(trace, "write_secs")
    /\ pc' = "open_read"
    /\ UNCHANGED <<argvars, parsevars, file, dir_created, device_selected,
                   writer_open, wpos, bufd, written, reader_open, rpos,
                   read_total, now, t0, sync_done_at, t1, read_secs, chunks, err,
                   err_at, exit_code, reported, logged, remove_failed,
                   w_mbs, w_mbps, r_mbs, r_mbps>>

\* lines 250-254: open the read handle, read_total = 0, t1 = Instant::now()
OpenRead(ok) ==
    /\ pc = "open_read"
    /\ IF ok /\ file.exists
       THEN /\ pc' = "read"
            /\ reader_open' = TRUE
            /\ rpos' = 0
            /\ read_total' = 0
            /\ t1' = now
            /\ trace' = Append(trace, "open_read")
            /\ UNCHANGED <<err, err_at, exit_code, file>>
       ELSE /\ Fail("open_read", Append(trace, "open_read"), TRUE)
            /\ UNCHANGED <<reader_open, rpos, read_total, t1>>
    /\ UNCHANGED <<argvars, parsevars, dir_created, device_selected,
                   writer_open, wpos, bufd, written, now, t0, write_secs,
                   sync_done_at, read_secs, chunks, reported, logged,
                   remove_failed, w_mbs, w_mbps, r_mbs, r_mbps>>

\* Mutant of ReadBlock: a read error ends the loop instead of returning.
ReadBlock_ErrorBreaks(ok, n, tick) ==
    /\ pc = "read"
    /\ now' = now + (IF tick THEN 1 ELSE 0)
    /\ IF ok
       THEN /\ n <= Min(block, file.size - rpos)
            /\ (n = 0) = (file.size - rpos = 0)
            /\ rpos' = rpos + n
            /\ read_total' = IF n = 0 THEN read_total ELSE read_total + n
            /\ pc' = IF n = 0 THEN "read_secs" ELSE "read"
            /\ trace' = Append(trace, IF n = 0 THEN "eof" ELSE "read")
            /\ UNCHANGED <<err, err_at, exit_code, file>>
       ELSE /\ n = 0
            /\ err' = "read"
            /\ err_at' = Len(trace) + 1
            /\ trace' = Append(trace, "read")
            /\ pc' = "read_secs"
            /\ UNCHANGED <<rpos, read_total, exit_code, file>>
    /\ UNCHANGED <<argvars, parsevars, dir_created, device_selected,
                   writer_open, wpos, bufd, written, reader_open, t0,
                   write_secs, sync_done_at, t1, read_secs, chunks, reported,
                   logged, remove_failed, w_mbs, w_mbps, r_mbs, r_mbps>>

\* lines 255-260: one iteration of the read loop.  The destination is as
\* large as the BufReader's capacity, so each read goes to the file: it
\* returns n in 1..min(block, remaining) bytes, or 0 at end of file, which
\* breaks the loop.
ReadBlock(ok, n, tick) ==
    /\ pc = "read"
    /\ now' = now + (IF tick THEN 1 ELSE 0)
    /\ IF ok
       THEN /\ n <= Min(block, file.size - rpos)
            /\ (n = 0) = (file.size - rpos = 0)
            /\ rpos' = rpos + n
            /\ read_total' = IF n = 0 THEN read_total ELSE read_total + n
            /\ pc' = IF n = 0 THEN "read_secs" ELSE "read"
            /\ trace' = Append(trace, IF n = 0 THEN "eof" ELSE "read")
            /\ UNCHANGED <<err, err_at, exit_code, file>>
       ELSE /\ n = 0
            /\ Fail("read", Append(trace, "read"), TRUE)
            /\ UNCHANGED <<rpos, read_total>>
    /\ UNCHANGED <<argvars, parsevars, dir_created, device_selected,
                   writer_open, wpos, bufd, written, reader_open, t0,
                   write_secs, sync_done_at, t1, read_secs, chunks, reported,
                   logged, remove_failed, w_mbs, w_mbps, r_mbs, r_mbps>>

\* lines 261-285: read_secs = t1.elapsed(); the four speeds; the summary.
Report ==
    /\ pc = "read_secs"
    /\ read_secs' = now - t1
    /\ w_mbs' = mbs(written, write_secs)
    /\ w_mbps' = mbps(written, write_secs)
    /\ r_mbs' = mbs(read_total, read_secs')
    /\ r_mbps' = mbps(read_total, read_secs')
    /\ reported' = TRUE
    /\ trace' = Append(trace, "report")
    /\ pc' = "prompt"
    /\ UNCHANGED <<argvars, parsevars, file, dir_created, device_selected,
                   writer_open, wpos, bufd, written, reader_open, rpos,
                   read_total, now, t0, write_secs, sync_done_at, t1, chunks, err,
                   err_at, exit_code, logged, remove_failed>>

\* line 288: prompt_yes_no("Save results to USB root?")?
PromptSave(ok, yes) ==
    /\ pc = "prompt"
    /\ IF ok
       THEN /\ pc' = IF yes THEN "log" ELSE "cleanup"
            /\ trace' = Append(trace, "prompt")
            /\ UNCHANGED <<err, err_at, exit_code, file>>
       ELSE Fail("prompt", Append(trace, "prompt"), TRUE)
    /\ UNCHANGED <<argvars, parsevars, dir_created, device_selected,
                   writer_open, wpos, bufd, written, reader_open, rpos,
                   read_total, now, t0, write_secs, sync_done_at, t1,
                   read_secs, chunks, reported, logged, remove_failed,
                   w_mbs, w_mbps, r_mbs, r_mbps>>

\* Mutant of WriteLog: an error writing the log is ignored.
WriteLog_ErrorIgnored(ok) ==
    /\ pc = "log"
    /\ pc' = "cleanup"
    /\ logged' = ok
    /\ err' = IF ok THEN err ELSE "log"
    /\ err_at' = IF ok THEN err_at ELSE Len(trace) + 1
    /\ trace' = Append(trace, "log")
    /\ UNCHANGED <<argvars, parsevars, file, dir_created, device_selected,
                   writer_open, wpos, bufd, written, reader_open, rpos,
                   read_total, now, t0, write_secs, sync_done_at, t1,
                   read_secs, chunks, exit_code, reported, remove_failed,
                   w_mbs, w_mbps, r_mbs, r_mbps>>

\* lines 289-306: the session name is read, the line is appended to
\* crabwise.log (open, write_all, flush, sync_all, each with `?`).
WriteLog(ok) ==
    /\ pc = "log"
    /\ IF ok
       THEN /\ pc' = "cleanup"
            /\ logged' = TRUE
            /\ trace' = Append(trace, "log")
            /\ UNCHANGED <<err, err_at, exit_code, file>>
       ELSE /\ Fail("log", Append(trace, "log"), TRUE)
            /\ UNCHANGED logged
    /\ UNCHANGED <<argvars, parsevars, dir_created, device_selected,
                   writer_open, wpos, bufd, written, reader_open, rpos,
                   read_total, now, t0, write_secs, sync_done_at, t1,
                   read_secs, chunks, reported, remove_failed, w_mbs, w_mbps,
                   r_mbs, r_mbps>>

\* lines 309-312: if !args.keep { let _ = remove_file(&test_path); } Ok(())
Cleanup(rm_ok, drop_ok) ==
    /\ pc = "cleanup"
    /\ IF keep
       THEN /\ file' = DropWriter(file, drop_ok)
            /\ trace' = DropTrace(trace)
            /\ UNCHANGED remove_failed
       ELSE /\ file' = IF rm_ok THEN [exists |-> FALSE, size |-> 0]
                       ELSE DropWriter(file, drop_ok)
            /\ remove_failed' = ~rm_ok
            /\ trace' = DropTrace(Append(trace, "remove"))
    /\ exit_code' = 0
    /\ pc' = "exit"
    /\ UNCHANGED <<argvars, parsevars, dir_created, device_selected,
                   writer_open, wpos, bufd, written, reader_open, rpos,
                   read_total, now, t0, write_secs, sync_done_at, t1,
                   read_secs, chunks, err, err_at, reported, logged,
                   w_mbs, w_mbps, r_mbs, r_mbps>>

Next ==
    \/ Validate
    \/ \E n_cand \in 0..MaxCand, sel \in -1..(MaxCand + 1), ok \in BOOLEAN :
          ChooseTarget(n_cand, sel, ok)
    \/ \E ok \in BOOLEAN : CreateDir(ok)
    \/ \E ok \in BOOLEAN : OpenWrite(ok)
    \/ \E ok \in BOOLEAN, tick \in BOOLEAN, drop_ok \in BOOLEAN :
          WriteBlock(ok, tick, drop_ok)
    \/ \E ok \in BOOLEAN, drop_ok \in BOOLEAN : Flush(ok, drop_ok)
    \/ \E ok \in BOOLEAN, tick \in BOOLEAN : SyncAll(ok, tick)
    \/ CaptureWriteSecs
    \/ \E ok \in BOOLEAN : OpenRead(ok)
    \/ \E ok \in BOOLEAN, n \in 0..MaxBlock, tick \in BOOLEAN :
          ReadBlock(ok, n, tick)
    \/ Report
    \/ \E ok \in BOOLEAN, yes \in BOOLEAN : PromptSave(ok, yes)
    \/ \E ok \in BOOLEAN : WriteLog(ok)
    \/ \E rm_ok \in BOOLEAN, drop_ok \in BOOLEAN : Cleanup(rm_ok, drop_ok)

Spec == Init /\ [][Next]_vars

\* ------------------------------------------------------------ parse_size
\* Strings are sequences of one-character strings.  u64 values are kept as
\* NLimbs little-endian limbs of LimbBits bits, wide enough for the exact
\* product, so that the 64-bit arithmetic of the code can be told apart from
\* the mathematical value.
K == 1024
U64Bits == 64
LimbBits == CHOOSE n \in 1..U64Bits : 2 ^ n = K
Limbs == 1..NLimbs
ZeroL == [i \in Limbs |-> 0]

\* limbs i..NLimbs of v * m + carry * K^(i-1), for small m and carry
RECURSIVE MulAddFrom(_, _, _, _)
MulAddFrom(v, m, carry, i) ==
    IF i > NLimbs THEN << >>
    ELSE <<(v[i] * m + carry) % K>>
             \o MulAddFrom(v, m, (v[i] * m + carry) \div K, i + 1)

\* v * m + a, for small m and a
MulAdd(v, m, a) == MulAddFrom(v, m, a, 1)

\* v * mult, mult a power of 1024
RECURSIVE Times(_, _)
Times(v, mult) ==
    IF mult = 1 THEN v ELSE Times(MulAdd(v, K, 0), mult \div K)

FullLimbs == U64Bits \div LimbBits
TopBits == U64Bits % LimbBits

\* v < 2^64
FitsU64(v) ==
    /\ v[FullLimbs + 1] < 2 ^ TopBits
    /\ \A i \in (FullLimbs + 2)..NLimbs : v[i] = 0

\* v mod 2^64
WrapU64(v) ==
    SubSeq(v, 1, FullLimbs) \o <<v[FullLimbs + 1] % (2 ^ TopBits)>>
        \o [i \in 1..(NLimbs - FullLimbs - 1) |-> 0]

Digits == {"0", "1", "2", "3", "4", "5", "6", "7", "8", "9"}

is_ascii_digit(c) == c \in Digits

DigitVal(c) ==
    CASE c = "0" -> 0 [] c = "1" -> 1 [] c = "2" -> 2 [] c = "3" -> 3
      [] c = "4" -> 4 [] c = "5" -> 5 [] c = "6" -> 6 [] c = "7" -> 7
      [] c = "8" -> 8 [] c = "9" -> 9

is_whitespace(c) == c \in {" ", "\t"}

char_to_ascii_uppercase(c) ==
    CASE c = "k" -> "K" [] c = "m" -> "M" [] c = "g" -> "G"
      [] c = "b" -> "B" [] c = "x" -> "X" [] OTHER -> c

to_ascii_uppercase(s) == [i \in DOMAIN s |-> char_to_ascii_uppercase(s[i])]

RECURSIVE trim_start(_)
trim_start(s) ==
    IF s # << >> /\ is_whitespace(Head(s)) THEN trim_start(Tail(s)) ELSE s

RECURSIVE trim_end(_)
trim_end(s) ==
    IF s # << >> /\ is_whitespace(s[Len(s)])
    THEN trim_end(SubSeq(s, 1, Len(s) - 1)) ELSE s

\* str::trim
trim(s) == trim_end(trim_start(s))

\* str::find(|c| !c.is_ascii_digit()): the 0-based index of the first
\* character that is not a digit, or -1 for None
find_non_digit(s) ==
    LET hits == {i \in DOMAIN s : ~is_ascii_digit(s[i])}
    IN  IF hits = {} THEN -1
        ELSE (CHOOSE i \in hits : \A j \in hits : i <= j) - 1

\* the decimal value of a string of digits
RECURSIVE DecimalValue(_)
DecimalValue(ds) ==
    IF ds = << >> THEN ZeroL
    ELSE MulAdd(DecimalValue(SubSeq(ds, 1, Len(ds) - 1)), 10,
                DigitVal(ds[Len(ds)]))

\* num.parse::<u64>(): Err on the empty string and on a value above u64::MAX
parse_u64_ok(num) == num # << >> /\ FitsU64(DecimalValue(num))

\* Mutant of suffix_mult: an unknown suffix defaults to 1 instead of
\* panicking.
suffix_mult_DefaultOne(suf) ==
    CASE suf \in {<<"K">>, <<"K", "B">>} -> 1024
      [] suf \in {<<"M">>, <<"M", "B">>} -> 1024 * 1024
      [] suf \in {<<"G">>, <<"G", "B">>} -> 1024 * 1024 * 1024
      [] OTHER -> 1

\* lines 81-87: the match on the upper-cased suffix; 0 stands for the panic
suffix_mult(suf) ==
    CASE suf = << >> -> 1
      [] suf \in {<<"K">>, <<"K", "B">>} -> 1024
      [] suf \in {<<"M">>, <<"M", "B">>} -> 1024 * 1024
      [] suf \in {<<"G">>, <<"G", "B">>} -> 1024 * 1024 * 1024
      [] OTHER -> 0

Panic(m) == [status |-> "panic", msg |-> m, value |-> ZeroL]
Ok(v) == [status |-> "ok", msg |-> "", value |-> v]

\* line 88: n * mult in u64, given the exact product.  overflow_checks is
\* the build's setting: with it an overflowing product panics, without it
\* the product wraps modulo 2^64.
mul_u64(prod, overflow_checks) ==
    IF FitsU64(prod) THEN Ok(prod)
    ELSE IF overflow_checks THEN Panic("attempt to multiply with overflow")
    ELSE Ok(WrapU64(prod))

\* lines 80-88: the digits num and the suffix suf, once split
parse_parts(num, suf, overflow_checks) ==
    IF ~parse_u64_ok(num) THEN Panic("invalid size")
    ELSE IF suffix_mult(to_ascii_uppercase(trim(suf))) = 0
    THEN Panic("unsupported size suffix")
    ELSE mul_u64(Times(DecimalValue(num),
                       suffix_mult(to_ascii_uppercase(trim(suf)))),
                 overflow_checks)

\* line 79: s.trim().split_at(mid), which panics when mid is past the end
split_at(t, mid, overflow_checks) ==
    IF mid > Len(t) THEN Panic("split_at: mid > len")
    ELSE parse_parts(SubSeq(t, 1, mid), SubSeq(t, mid + 1, Len(t)),
                     overflow_checks)

\* lines 77-89.  The split point is the first non-digit of the trimmed
\* input, or else s.len(), the length of the untrimmed input.
parse_size(s, overflow_checks) ==
    split_at(trim(s),
             IF find_non_digit(trim(s)) = -1 THEN Len(s)
             ELSE find_non_digit(trim(s)),
             overflow_checks)

Alphabet == {"1", "5", "k", "K", "M", "G", "B", "X", " "}

RECURSIVE StringsOfLen(_)
StringsOfLen(n) ==
    IF n = 0 THEN {<< >>}
    ELSE {Append(s, c) : s \in StringsOfLen(n - 1), c \in Alphabet}

ShortInputs == UNION {StringsOfLen(n) : n \in 0..MaxLen}

\* "512M"; 2^34 G = 2^64; u64::MAX; u64::MAX + 1
LongInputs ==
    { <<"5", "1", "2", "M">>,
      <<"1", "7", "1", "7", "9", "8", "6", "9", "1", "8", "4", "G">>,
      <<"1", "8", "4", "4", "6", "7", "4", "4", "0", "7", "3", "7", "0", "9",
        "5", "5", "1", "6", "1", "5">>,
      <<"1", "8", "4", "4", "6", "7", "4", "4", "0", "7", "3", "7", "0", "9",
        "5", "5", "1", "6", "1", "6">> }

InitParse ==
    /\ total = 0 /\ block = 0 /\ keep = FALSE /\ has_target = FALSE
    /\ file0 = [exists |-> FALSE, size |-> 0]
    /\ InitRun("off")
    /\ p_pc = "start"
    /\ p_input \in ShortInputs \cup LongInputs
    /\ p_result = [status |-> "none"]

\* lines 215-216: parse_size(&args.size)
Parse(overflow_checks) ==
    /\ p_pc = "start"
    /\ p_result' = parse_size(p_input, overflow_checks)
    /\ p_pc' = "done"
    /\ UNCHANGED <<argvars, runvars, p_input>>

NextParse == \E overflow_checks \in BOOLEAN : Parse(overflow_checks)

SpecParse == InitParse /\ [][NextParse]_vars

\* ================================================================ claims
Events(tr) == {tr[i] : i \in DOMAIN tr}

\* C1: when block = 0 or block > total the run ends in a failure and nothing
\* has touched the file system: no directory created, no device selected,
\* the temp file neither created nor truncated, no operation attempted.
C1_NoIOOnInvalidConfig ==
    (block = 0 \/ block > total) =>
        /\ pc \in {"validate", "exit"}
        /\ pc = "exit" => exit_code # 0
        /\ trace = << >>
        /\ ~dir_created /\ ~device_selected /\ ~writer_open
        /\ file = file0

C1_Witness ==
    /\ pc = "exit" /\ exit_code = 101
    /\ block > total /\ file0.exists /\ file = file0

\* C2: each write is min(block, remaining); written never exceeds total; once
\* the loop has ended (the flush was reached) exactly ceil(total/block)
\* writes were issued and written = total; the zero-length read is observed
\* only after read_total has reached total.
C2_ChunkedWriteThenFullRead ==
    /\ written <= total
    /\ \A i \in DOMAIN chunks :
          chunks[i] = (IF total - (i - 1) * block < block
                       THEN total - (i - 1) * block ELSE block)
    /\ "flush" \in Events(trace) =>
          /\ Len(chunks) * block >= total
          /\ (Len(chunks) - 1) * block < total
          /\ written = total
    /\ "eof" \in Events(trace) => read_total = total
    /\ read_total <= total

C2_Witness ==
    /\ pc = "exit" /\ exit_code = 0
    /\ total = 4 /\ block = 3
    /\ chunks = <<3, 1>> /\ read_total = 4

\* C3: a run with keep unset that created the temp file leaves no temp file
\* behind when the process exits.
C3_TempFileGoneAtExit ==
    (pc = "exit" /\ ~keep /\ writer_open) => ~file.exists

\* C4: a completed run with keep set leaves the temp file present with size
\* total, whatever was at that path before.
C4_KeptFileHasTotalSize ==
    (pc = "exit" /\ exit_code = 0 /\ keep) =>
        (file.exists /\ file.size = total)

C4_Witness ==
    /\ pc = "exit" /\ exit_code = 0 /\ keep
    /\ file0.exists /\ file0.size > total
    /\ file.size = total

\* C5: the phase boundary is ordered: block writes, then the flush, then the
\* sync, then the capture of write_secs, then the opening of the read
\* handle, then the reads; none of these happens without its predecessor,
\* and write_secs covers the time up to the sync's completion.
Rank(e) ==
    CASE e = "write" -> 1
      [] e = "flush" -> 2
      [] e = "sync" -> 3
      [] e = "write_secs" -> 4
      [] e = "open_read" -> 5
      [] e \in {"read", "eof"} -> 6
      [] OTHER -> 0

C5_SyncBeforeRead ==
    /\ \A i, j \in DOMAIN trace :
          (Rank(trace[i]) > 0 /\ Rank(trace[j]) > Rank(trace[i])) => i < j
    /\ \A j \in DOMAIN trace :
          Rank(trace[j]) > 1 =>
              \E i \in 1..(j - 1) : Rank(trace[i]) = Rank(trace[j]) - 1
    /\ "write_secs" \in Events(trace) =>
          (t0 <= sync_done_at /\ sync_done_at <= t0 + write_secs)

C5_Witness ==
    /\ "read" \in Events(trace)
    /\ Len(chunks) >= 2
    /\ sync_done_at > t0
    /\ write_secs = sync_done_at - t0

\* C6 (as stated): after an error in the write or read pass nothing further
\* is attempted, main has returned the error, and there is no summary and
\* no log entry.
PassOps == {"open_write", "write", "flush", "sync", "open_read", "read"}

C6_NothingAttemptedAfterError ==
    err \in PassOps =>
        /\ pc = "exit" /\ exit_code # 0
        /\ ~reported /\ ~logged
        /\ Len(trace) = err_at

\* C6 (amended): after an error in the write or read pass main attempts no
\* further write, sync or read, has returned the error, and has produced no
\* summary and no log entry; the only I/O that can follow is one write of
\* the still-buffered tail by the BufWriter's destructor, and only when the
\* failed operation was the flush.
C6_AbortOnPassError ==
    err \in PassOps =>
        /\ pc = "exit" /\ exit_code # 0
        /\ ~reported /\ ~logged
        /\ trace[err_at] = (IF err = "read" THEN "read" ELSE err)
        /\ Len(trace) <= err_at + 1
        /\ Len(trace) = err_at + 1 =>
              (err = "flush" /\ trace[Len(trace)] = "drop_write")

C6_Witness ==
    /\ err = "read" /\ pc = "exit" /\ exit_code = 1
    /\ read_total > 0 /\ read_total < total

\* C7 (as stated): a failure of any temp-file operation, of the deletion, or
\* of the log write gives a non-zero exit code; exit code 0 only when none
\* of them failed.
C7_EveryIOFailureFatal ==
    pc = "exit" =>
        /\ (err # "none" \/ remove_failed) => exit_code # 0
        /\ exit_code = 0 => (err = "none" /\ ~remove_failed)

\* C7 (amended): a failure opening, writing, flushing, syncing or reading the
\* temp file, or writing the log, gives a non-zero exit code, and exit code
\* 0 only when none of them failed; a failure deleting the temp file is
\* ignored and the run still exits with code 0.
C7_FatalExceptRemove ==
    pc = "exit" =>
        /\ err \in (PassOps \cup {"log"}) => exit_code # 0
        /\ exit_code = 0 => err = "none"
        /\ remove_failed => (exit_code = 0 /\ file.exists /\ ~keep)

C7_Witness ==
    /\ pc = "exit" /\ err = "log" /\ exit_code = 1 /\ reported

\* C8: an input that, trimmed, is one or more digits followed by one of the
\* suffixes "", K, KB, M, MB, G, GB in any case parses to the value of the
\* digits times 1, 1024, 1024^2, 1024^3.
Suffixes == {<< >>, <<"K">>, <<"K", "B">>, <<"M">>, <<"M", "B">>,
             <<"G">>, <<"G", "B">>}

DigitPrefixLen(t) ==
    IF find_non_digit(t) = -1 THEN Len(t) ELSE find_non_digit(t)

DigitsOf(s) == SubSeq(trim(s), 1, DigitPrefixLen(trim(s)))
RestOf(s) == SubSeq(trim(s), DigitPrefixLen(trim(s)) + 1, Len(trim(s)))

ValidForm(s) ==
    /\ DigitsOf(s) # << >>
    /\ to_ascii_uppercase(RestOf(s)) \in Suffixes

UnitOf(suf) ==
    IF suf = << >> THEN 1
    ELSE CASE suf[1] = "K" -> K
           [] suf[1] = "M" -> K * K
           [] suf[1] = "G" -> K * K * K

Expected(digits, suf) ==
    Times(DecimalValue(digits), UnitOf(to_ascii_uppercase(suf)))

C8_ValidSizesParse ==
    (p_pc = "done" /\ ValidForm(p_input)) =>
        /\ p_result.status = "ok"
        /\ p_result.value = Expected(DigitsOf(p_input), RestOf(p_input))

\* C9 (as stated): every input that is not of the valid form makes
\* parse_size fail.
C9_MalformedSizesFail ==
    (p_pc = "done" /\ ~ValidForm(p_input)) => p_result.status = "panic"

\* C9 (amended): every input that is not of the valid form makes parse_size
\* fail, except digits followed by whitespace and a recognised suffix: the
\* suffix is trimmed again before it is matched, so "5 M" is 5 * 1024^2.
Tolerated(s) ==
    /\ DigitsOf(s) # << >>
    /\ RestOf(s) # << >>
    /\ is_whitespace(RestOf(s)[1])
    /\ to_ascii_uppercase(trim(RestOf(s))) \in Suffixes

C9_MalformedFailUnlessPaddedSuffix ==
    p_pc = "done" =>
        /\ (~ValidForm(p_input) /\ ~Tolerated(p_input)) =>
              p_result.status = "panic"
        /\ Tolerated(p_input) =>
              /\ p_result.status = "ok"
              /\ p_result.value =
                    Expected(DigitsOf(p_input), trim(RestOf(p_input)))

C9_Witness ==
    /\ p_pc = "done"
    /\ p_input = <<"5", "X">>
    /\ p_result.status = "panic"

\* C10: a phase whose elapsed time is 0 is reported with MB/s = 0 and
\* Mbps = 0.
IsZero(x) == x.kind = "fin" /\ x.num = 0

C10_ZeroElapsedReportsZero ==
    reported =>
        /\ write_secs = 0 => (IsZero(w_mbs) /\ IsZero(w_mbps))
        /\ read_secs = 0 => (IsZero(r_mbs) /\ IsZero(r_mbps))

====
